---- MODULE Spec2Model ----
(***************************************************************************)
(* Model of the profiler crate: the decode pass of                         *)
(* tracepoint::read_tracepoint_file (src/src/tracepoint.rs) and the        *)
(* derived ratios of perf::ProfilingResult (src/src/perf.rs).              *)
(*                                                                         *)
(* The perf.data reader (tracepoint_perf::PerfDataFileReader) and the      *)
(* EventHeader enumerator (tracepoint_decode) are library objects; the     *)
(* model keeps, for each, exactly the results the function branches on.    *)
(***************************************************************************)
EXTENDS Integers, Sequences, FiniteSets, TLC

VARIABLES
    file,          \* the capture file on disk (the input of the pass)
    pass,          \* which call of read_tracepoint_file this is (1 or 2)
    prev,          \* what the previous call returned
    pc,            \* position inside read_tracepoint_file
    reader,        \* PerfDataFileReader: "none", "new", "open", "dropped"
    pos,           \* number of records the cursor has delivered
    calls,         \* library calls made in this pass
    stats,         \* the local TracepointStats
    sample_count,  \* the local sample_count
    info,          \* the SampleEventInfo of the current sample
    enum_state,    \* EventHeaderEnumerator::state()
    enum_item,     \* index of the enumerator's current top-level item
    field_count,   \* the local field_count of the running stage
    trace,         \* decode stages entered for the current record
    emitted,       \* field lines printed for the current record
    printed,       \* lines printed in this pass, by kind
    result,        \* the value returned to the caller
    perf,          \* a ProfilingResult
    callchain,     \* a CallchainProfilingResult
    ratios         \* ratios computed by the perf module

tpvars == <<file, pass, prev, pc, reader, pos, calls, stats, sample_count, info,
            enum_state, enum_item, field_count, trace, emitted, printed, result>>
perfvars == <<perf, callchain, ratios>>
vars == <<file, pass, prev, pc, reader, pos, calls, stats, sample_count, info,
          enum_state, enum_item, field_count, trace, emitted, printed, result,
          perf, callchain, ratios>>

----------------------------------------------------------------------------
(* Bounds of the model *)

MaxRecords == 3   \* records in a capture file
MaxItems   == 4   \* top-level items of a self-describing payload
MaxFields  == 4   \* fields declared by a Field Format
MaxCommon  == 2   \* common-field count declared by a Field Format
MaxPasses  == 2   \* calls of read_tracepoint_file on the same file
MaxCount   == 2   \* hardware counter values and duration
MaxLong    == 6   \* records in a long capture file

(* Limits written in the source *)

ShownSamples    == 5   \* sample_count <= 5
ShownNonSamples == 3   \* stats.non_sample_events <= 3
ShownFields     == 3   \* field_count < 3, field_count >= 3

Min(a, b) == IF a < b THEN a ELSE b

----------------------------------------------------------------------------
(* The capture file *)

\* PerfEventHeaderType values a record header can carry: Sample, a known
\* non-sample type, and a value outside the known enumeration.
TypeTags == {"Sample", "Mmap", "Unknown"}

\* A record: its type tag and whether get_sample_event_info resolves it.
Records ==
    {[ty |-> "Sample", resolves |-> r] : r \in BOOLEAN}
    \cup {[ty |-> t, resolves |-> FALSE] : t \in TypeTags \ {"Sample"}}

RECURSIVE SeqsUpTo(_, _)
SeqsUpTo(S, n) ==
    IF n = 0 THEN {<<>>}
    ELSE LET shorter == SeqsUpTo(S, n - 1)
         IN  shorter \cup {Append(s, x) : s \in {t \in shorter : Len(t) = n - 1}, x \in S}

\* exists:    Path::exists()
\* empty:     the file has zero bytes
\* header_ok: the container header parses (open_file succeeds); a file of
\*            zero bytes has no header to parse
\* records:   the well-framed records, in the order the cursor delivers them
\* corrupt:   the bytes after the last well-framed record are a corrupt frame
Files ==
    {[exists |-> FALSE, empty |-> TRUE, header_ok |-> FALSE,
      records |-> <<>>, corrupt |-> FALSE],
     [exists |-> TRUE, empty |-> TRUE, header_ok |-> FALSE,
      records |-> <<>>, corrupt |-> FALSE],
     [exists |-> TRUE, empty |-> FALSE, header_ok |-> FALSE,
      records |-> <<>>, corrupt |-> FALSE]}
    \cup {[exists |-> TRUE, empty |-> FALSE, header_ok |-> TRUE,
           records |-> rs, corrupt |-> c] :
            rs \in SeqsUpTo(Records, MaxRecords), c \in BOOLEAN}

\* Long streams: a run of one kind of record followed by a run of another,
\* MaxLong records in all, enough to pass the print limits of the pass.
Run(r, n) == [i \in 1..n |-> r]

LongFiles ==
    {f \in Files : ~f.header_ok}
    \cup {[exists |-> TRUE, empty |-> FALSE, header_ok |-> TRUE,
           records |-> Run(a, m) \o Run(b, MaxLong - m), corrupt |-> c] :
            a \in Records, b \in Records, m \in 0..MaxLong, c \in BOOLEAN}

ZeroLength(f) == f.exists /\ f.empty
HeaderOnly(f) == f.exists /\ f.header_ok /\ f.records = <<>> /\ ~f.corrupt

----------------------------------------------------------------------------
(* Values *)

TracepointStatsDefault ==
    [total_events |-> 0, sample_events |-> 0, non_sample_events |-> 0]

NoResult == [kind |-> "None", msg |-> "", stats |-> <<>>]
Ok(s)    == [kind |-> "Ok", msg |-> "", stats |-> <<s>>]
Err(m)   == [kind |-> "Err", msg |-> m, stats |-> <<>>]

NoCalls == [new |-> 0, open_file |-> 0, header_string |-> 0,
            move_next_event |-> 0, current_event |-> 0,
            get_sample_event_info |-> 0]

NoPrinted == [non_sample |-> 0, sample |-> 0, notice |-> 0, summary |-> 0]

\* A SampleEventInfo, as far as the decoder reads it.
\*   eh:        enumerator_ctx.enumerate(&info) succeeds
\*   items:     top-level items of the self-describing payload
\*   truncated: the payload ends in an error instead of after its last item
\*   has_format, common, nfields: info.format(), its common_field_count()
\*              and the length of its fields()
NoInfo == [eh |-> FALSE, items |-> 0, truncated |-> FALSE,
           has_format |-> FALSE, common |-> 0, nfields |-> 0]

Formats ==
    {[has_format |-> TRUE, common |-> k, nfields |-> n] :
        k \in 0..MaxCommon, n \in 0..MaxFields}

Infos ==
    {[eh |-> TRUE, items |-> n, truncated |-> t,
      has_format |-> f,
      common |-> IF f THEN Min(1, MaxCommon) ELSE 0,
      nfields |-> IF f THEN MaxFields ELSE 0] :
        n \in 0..MaxItems, t \in BOOLEAN, f \in BOOLEAN}
    \cup {[eh |-> FALSE, items |-> 0, truncated |-> FALSE,
           has_format |-> fm.has_format, common |-> fm.common, nfields |-> fm.nfields] :
            fm \in Formats}
    \cup {NoInfo}

\* td::EventHeaderEnumeratorState, in the order of the enum (the order `>=`
\* compares by).
StateRank(s) ==
    CASE s = "None" -> 0
      [] s = "Error" -> 1
      [] s = "AfterLastItem" -> 2
      [] s = "BeforeFirstItem" -> 3
      [] s = "Value" -> 4

\* The enumerator's state once it is asked to stand on top-level item i.
StateAt(inf, i) ==
    IF i <= inf.items THEN "Value"
    ELSE IF inf.truncated THEN "Error" ELSE "AfterLastItem"

\* move_next_sibling(): TRUE iff it moved to a further item.
MoveNextSibling(inf, i) == i + 1 <= inf.items

\* Variant: a skip count fixed in the decoder instead of read from the format.
SkipFieldsFixed(inf) == 1

\* event_format.common_field_count()
SkipFields(inf) == inf.common

\* Variant: only the known non-sample types take the non-sample branch.
IsSampleUnlessKnown(ty) == ty # "Mmap"

\* event.header.ty != PerfEventHeaderType::Sample is false
IsSample(ty) == ty = "Sample"

\* Variant: total_events is only counted on the non-sample branch.
CountRecordNonSampleTotal(s, ty) ==
    IF ~IsSample(ty)
    THEN [s EXCEPT !.total_events = @ + 1, !.non_sample_events = @ + 1]
    ELSE [s EXCEPT !.sample_events = @ + 1]

\* Variant: non_sample_events is counted outside the type test.
CountRecordBoth(s, ty) ==
    IF ~IsSample(ty)
    THEN [s EXCEPT !.total_events = @ + 1, !.non_sample_events = @ + 1]
    ELSE [s EXCEPT !.total_events = @ + 1, !.non_sample_events = @ + 1,
                   !.sample_events = @ + 1]

\* The counters after one delivered record of type ty.
CountRecord(s, ty) ==
    IF ~IsSample(ty)
    THEN [s EXCEPT !.total_events = @ + 1, !.non_sample_events = @ + 1]
    ELSE [s EXCEPT !.total_events = @ + 1, !.sample_events = @ + 1]

----------------------------------------------------------------------------
(* perf::ProfilingResult *)

RECURSIVE Gcd(_, _)
Gcd(a, b) == IF b = 0 THEN a ELSE Gcd(b, a % b)

\* f64 values: a finite value is kept as a fraction in lowest terms; a
\* division by zero gives NaN (0.0 / 0.0) or infinity (x / 0.0), as IEEE 754
\* division does.
Finite(n, d) ==
    [kind |-> "finite", num |-> n \div Gcd(n, d), den |-> d \div Gcd(n, d)]
NaN      == [kind |-> "nan", num |-> 0, den |-> 0]
Infinity == [kind |-> "inf", num |-> 0, den |-> 0]
Zero     == Finite(0, 1)
NotCalled == [kind |-> "none", num |-> 0, den |-> 0]

\* `a as f64 / b as f64`
FDiv(a, b) ==
    IF b = 0 THEN (IF a = 0 THEN NaN ELSE Infinity) ELSE Finite(a, b)

\* `x * 100.0`
FMul100(x) ==
    IF x.kind = "finite" THEN Finite(x.num * 100, x.den) ELSE x

\* Variant: ipc without the zero test.
ipc_unguarded(r) == FDiv(r.instructions, r.cpu_cycles)

ipc(r) ==
    IF r.cpu_cycles = 0 THEN Zero ELSE FDiv(r.instructions, r.cpu_cycles)

cache_miss_rate(r) ==
    IF r.cache_references = 0 THEN Zero
    ELSE FMul100(FDiv(r.cache_misses, r.cache_references))

cycles_per_second(r) ==
    IF r.duration_secs = 0 THEN Zero ELSE FDiv(r.cpu_cycles, r.duration_secs)

ProfilingResults ==
    [cpu_cycles : 0..MaxCount, instructions : 0..MaxCount,
     cache_references : 0..MaxCount, cache_misses : 0..MaxCount,
     duration_secs : 0..MaxCount]

NoProfilingResult ==
    [cpu_cycles |-> 0, instructions |-> 0, cache_references |-> 0,
     cache_misses |-> 0, duration_secs |-> 0]

NoRatios ==
    [ipc |-> NotCalled, cache_miss_rate |-> NotCalled, cycles_per_second |-> NotCalled,
     effective_rate |-> NotCalled]

\* A CallchainProfilingResult: the samples the callback counted, and the
\* duration and sampling frequency the caller asked for.
CallchainProfilingResults ==
    [sample_count : 0..MaxCount, duration_secs : 0..MaxCount,
     sampling_frequency : 0..MaxCount]

NoCallchainResult ==
    [sample_count |-> 0, duration_secs |-> 0, sampling_frequency |-> 0]

\* The "Effective Rate" printed by run_callchain_profiler:
\* `result.sample_count as f64 / result.duration_secs as f64`.
effective_rate(c) == FDiv(c.sample_count, c.duration_secs)

----------------------------------------------------------------------------
(* read_tracepoint_file *)

InitOn(files) ==
    /\ file \in files
    /\ pass = 1
    /\ prev = NoResult
    /\ pc = "call"
    /\ reader = "none"
    /\ pos = 0
    /\ calls = NoCalls
    /\ stats = TracepointStatsDefault
    /\ sample_count = 0
    /\ info = NoInfo
    /\ enum_state = "None"
    /\ enum_item = 0
    /\ field_count = 0
    /\ trace = <<>>
    /\ emitted = <<>>
    /\ printed = NoPrinted
    /\ result = NoResult
    /\ perf = NoProfilingResult
    /\ callchain = NoCallchainResult
    /\ ratios = NoRatios

Init == InitOn(Files)

\* The current record (reader.current_event()).
Event == file.records[pos]

\* Variant: the existence test is missing and the call goes on to open.
CheckPathSkipped ==
    /\ pc = "call"
    /\ ~file.exists
    /\ pc' = "open"
    /\ UNCHANGED <<file, pass, prev, reader, pos, calls, stats, sample_count, info,
                   enum_state, enum_item, field_count, trace, emitted, printed, result>>
    /\ UNCHANGED perfvars

\* Path::exists() fails: bail!("File not found").
CheckPathMissing ==
    /\ pc = "call"
    /\ ~file.exists
    /\ result' = Err("File not found")
    /\ pc' = "returned"
    /\ UNCHANGED <<file, pass, prev, reader, pos, calls, stats, sample_count, info,
                   enum_state, enum_item, field_count, trace, emitted, printed>>
    /\ UNCHANGED perfvars

CheckPathFound ==
    /\ pc = "call"
    /\ file.exists
    /\ pc' = "open"
    /\ UNCHANGED <<file, pass, prev, reader, pos, calls, stats, sample_count, info,
                   enum_state, enum_item, field_count, trace, emitted, printed, result>>
    /\ UNCHANGED perfvars

\* PerfDataFileReader::new(), open_file() fails: the error is returned with
\* its context and the reader is dropped.
OpenFileFails ==
    /\ pc = "open"
    /\ ~file.header_ok
    /\ calls' = [calls EXCEPT !.new = @ + 1, !.open_file = @ + 1]
    /\ reader' = "dropped"
    /\ result' = Err("Failed to open perf.data file")
    /\ pc' = "returned"
    /\ UNCHANGED <<file, pass, prev, pos, stats, sample_count, info,
                   enum_state, enum_item, field_count, trace, emitted, printed>>
    /\ UNCHANGED perfvars

\* Variant: the counters live outside the call and are not reset by it.
OpenFileKeepsStats ==
    /\ pc = "open"
    /\ file.header_ok
    /\ calls' = [calls EXCEPT !.new = @ + 1, !.open_file = @ + 1, !.header_string = @ + 3]
    /\ reader' = "open"
    /\ pos' = 0
    /\ pc' = "loop"
    /\ UNCHANGED <<file, pass, prev, stats, sample_count, info, enum_state, enum_item,
                   field_count, trace, emitted, printed, result>>
    /\ UNCHANGED perfvars

\* PerfDataFileReader::new(), open_file() succeeds; the locals of the pass
\* are created and the header is printed.
OpenFile ==
    /\ pc = "open"
    /\ file.header_ok
    /\ calls' = [calls EXCEPT !.new = @ + 1, !.open_file = @ + 1, !.header_string = @ + 3]
    /\ reader' = "open"
    /\ pos' = 0
    /\ stats' = TracepointStatsDefault
    /\ sample_count' = 0
    /\ pc' = "loop"
    /\ UNCHANGED <<file, pass, prev, info, enum_state, enum_item, field_count,
                   trace, emitted, printed, result>>
    /\ UNCHANGED perfvars

\* Variant: the error path leaves without releasing the reader.
MoveNextEventErrLeaks ==
    /\ pc = "loop"
    /\ pos = Len(file.records)
    /\ file.corrupt
    /\ calls' = [calls EXCEPT !.move_next_event = @ + 1]
    /\ result' = Err("Error reading event")
    /\ pc' = "returned"
    /\ UNCHANGED <<file, pass, prev, reader, pos, stats, sample_count, info,
                   enum_state, enum_item, field_count, trace, emitted, printed>>
    /\ UNCHANGED perfvars

\* Variant: a stream error ends the loop like an end of stream.
MoveNextEventErrBreaks ==
    /\ pc = "loop"
    /\ pos = Len(file.records)
    /\ file.corrupt
    /\ calls' = [calls EXCEPT !.move_next_event = @ + 1]
    /\ printed' = [printed EXCEPT !.summary = @ + 1]
    /\ reader' = "dropped"
    /\ result' = Ok(stats)
    /\ pc' = "returned"
    /\ UNCHANGED <<file, pass, prev, pos, stats, sample_count, info,
                   enum_state, enum_item, field_count, trace, emitted>>
    /\ UNCHANGED perfvars

\* reader.move_next_event() returns Err: bail!("Error reading event").
MoveNextEventErr ==
    /\ pc = "loop"
    /\ pos = Len(file.records)
    /\ file.corrupt
    /\ calls' = [calls EXCEPT !.move_next_event = @ + 1]
    /\ reader' = "dropped"
    /\ result' = Err("Error reading event")
    /\ pc' = "returned"
    /\ UNCHANGED <<file, pass, prev, pos, stats, sample_count, info,
                   enum_state, enum_item, field_count, trace, emitted, printed>>
    /\ UNCHANGED perfvars

\* Variant: a stream that ends before any record is reported as an error.
MoveNextEventEofEmptyFails ==
    /\ pc = "loop"
    /\ pos = Len(file.records)
    /\ ~file.corrupt
    /\ calls' = [calls EXCEPT !.move_next_event = @ + 1]
    /\ printed' = IF stats.total_events = 0 THEN printed
                   ELSE [printed EXCEPT !.summary = @ + 1]
    /\ reader' = "dropped"
    /\ result' = IF stats.total_events = 0 THEN Err("No events") ELSE Ok(stats)
    /\ pc' = "returned"
    /\ UNCHANGED <<file, pass, prev, pos, stats, sample_count, info,
                   enum_state, enum_item, field_count, trace, emitted>>
    /\ UNCHANGED perfvars

\* reader.move_next_event() returns Ok(false): break, print the summary,
\* return Ok(stats).
MoveNextEventEof ==
    /\ pc = "loop"
    /\ pos = Len(file.records)
    /\ ~file.corrupt
    /\ calls' = [calls EXCEPT !.move_next_event = @ + 1]
    /\ printed' = [printed EXCEPT !.summary = @ + 1]
    /\ reader' = "dropped"
    /\ result' = Ok(stats)
    /\ pc' = "returned"
    /\ UNCHANGED <<file, pass, prev, pos, stats, sample_count, info,
                   enum_state, enum_item, field_count, trace, emitted>>
    /\ UNCHANGED perfvars

\* reader.move_next_event() returns Ok(true).
MoveNextEvent ==
    /\ pc = "loop"
    /\ pos < Len(file.records)
    /\ calls' = [calls EXCEPT !.move_next_event = @ + 1]
    /\ pos' = pos + 1
    /\ info' = NoInfo
    /\ enum_state' = "None"
    /\ enum_item' = 0
    /\ field_count' = 0
    /\ trace' = <<>>
    /\ emitted' = <<>>
    /\ pc' = "classify"
    /\ UNCHANGED <<file, pass, prev, reader, stats, sample_count, printed, result>>
    /\ UNCHANGED perfvars

\* current_event(), total_events += 1 and the type test: the non-sample
\* branch counts the record, prints it when it is among the first few and
\* ends the iteration; the sample branch counts it and goes on to resolve it.
ClassifyRecord ==
    /\ pc = "classify"
    /\ calls' = [calls EXCEPT !.current_event = @ + 1]
    /\ stats' = CountRecord(stats, Event.ty)
    /\ IF ~IsSample(Event.ty)
       THEN /\ printed' = IF stats'.non_sample_events <= ShownNonSamples
                          THEN [printed EXCEPT !.non_sample = @ + 1]
                          ELSE printed
            /\ pc' = "loop"
            /\ UNCHANGED sample_count
       ELSE /\ sample_count' = sample_count + 1
            /\ pc' = "resolve"
            /\ UNCHANGED printed
    /\ UNCHANGED <<file, pass, prev, reader, pos, info, enum_state, enum_item,
                   field_count, trace, emitted, result>>
    /\ UNCHANGED perfvars

\* Variant: the resolution error is propagated with `?`.
ResolveFailsAborts ==
    /\ pc = "resolve"
    /\ ~Event.resolves
    /\ calls' = [calls EXCEPT !.get_sample_event_info = @ + 1]
    /\ reader' = "dropped"
    /\ result' = Err("Error getting sample info")
    /\ pc' = "returned"
    /\ UNCHANGED <<file, pass, prev, pos, stats, sample_count, info,
                   enum_state, enum_item, field_count, trace, emitted, printed>>
    /\ UNCHANGED perfvars

\* Variant: every resolution failure prints its notice.
ResolveFailsAlwaysNotices ==
    /\ pc = "resolve"
    /\ ~Event.resolves
    /\ calls' = [calls EXCEPT !.get_sample_event_info = @ + 1]
    /\ printed' = [printed EXCEPT !.notice = @ + 1]
    /\ pc' = "loop"
    /\ UNCHANGED <<file, pass, prev, reader, pos, stats, sample_count, info,
                   enum_state, enum_item, field_count, trace, emitted, result>>
    /\ UNCHANGED perfvars

\* Variant: a sample that does not resolve is taken out of sample_events.
ResolveFailsUncounts ==
    /\ pc = "resolve"
    /\ ~Event.resolves
    /\ calls' = [calls EXCEPT !.get_sample_event_info = @ + 1]
    /\ printed' = IF sample_count <= ShownSamples
                   THEN [printed EXCEPT !.notice = @ + 1]
                   ELSE printed
    /\ stats' = [stats EXCEPT !.sample_events = @ - 1]
    /\ pc' = "loop"
    /\ UNCHANGED <<file, pass, prev, reader, pos, sample_count, info,
                   enum_state, enum_item, field_count, trace, emitted, result>>
    /\ UNCHANGED perfvars

\* Variant: the failing record is tried again instead of being skipped.
ResolveFailsStalls ==
    /\ pc = "resolve"
    /\ ~Event.resolves
    /\ pc' = "resolve"
    /\ UNCHANGED <<file, pass, prev, reader, pos, calls, stats, sample_count, info,
                   enum_state, enum_item, field_count, trace, emitted, printed, result>>
    /\ UNCHANGED perfvars

\* reader.get_sample_event_info(&event) returns Err: a notice for the first
\* few samples, then `continue`.
ResolveFails ==
    /\ pc = "resolve"
    /\ ~Event.resolves
    /\ calls' = [calls EXCEPT !.get_sample_event_info = @ + 1]
    /\ printed' = IF sample_count <= ShownSamples
                   THEN [printed EXCEPT !.notice = @ + 1]
                   ELSE printed
    /\ pc' = "loop"
    /\ UNCHANGED <<file, pass, prev, reader, pos, stats, sample_count, info,
                   enum_state, enum_item, field_count, trace, emitted, result>>
    /\ UNCHANGED perfvars

\* Variant: the print limit counts the samples decoded so far instead of the
\* samples seen so far.
ResolveLimitsDecoded ==
    /\ pc = "resolve"
    /\ Event.resolves
    /\ calls' = [calls EXCEPT !.get_sample_event_info = @ + 1]
    /\ \E inf \in Infos : info' = inf
    /\ IF printed.sample < ShownSamples
       THEN /\ printed' = [printed EXCEPT !.sample = @ + 1]
            /\ pc' = "decode"
       ELSE /\ pc' = "loop"
            /\ UNCHANGED printed
    /\ UNCHANGED <<file, pass, prev, reader, pos, stats, sample_count,
                   enum_state, enum_item, field_count, trace, emitted, result>>
    /\ UNCHANGED perfvars

\* reader.get_sample_event_info(&event) returns Ok(info): the first few
\* samples are printed and decoded, the others end the iteration.
Resolve ==
    /\ pc = "resolve"
    /\ Event.resolves
    /\ calls' = [calls EXCEPT !.get_sample_event_info = @ + 1]
    /\ \E inf \in Infos : info' = inf
    /\ IF sample_count <= ShownSamples
       THEN /\ printed' = [printed EXCEPT !.sample = @ + 1]
            /\ pc' = "decode"
       ELSE /\ pc' = "loop"
            /\ UNCHANGED printed
    /\ UNCHANGED <<file, pass, prev, reader, pos, stats, sample_count,
                   enum_state, enum_item, field_count, trace, emitted, result>>
    /\ UNCHANGED perfvars

\* Variant: the kernel format is preferred when the descriptor has one.
TryFormatFirst ==
    /\ pc = "decode"
    /\ IF info.has_format
       THEN /\ trace' = Append(trace, "B")
            /\ field_count' = 0
            /\ pc' = "stageB"
            /\ UNCHANGED <<enum_item, enum_state>>
       ELSE IF info.eh
       THEN /\ trace' = trace \o <<"A_try", "A_ok">>
            /\ enum_item' = 1
            /\ enum_state' = StateAt(info, 1)
            /\ field_count' = 0
            /\ pc' = "stageA"
       ELSE /\ trace' = trace \o <<"A_try", "A_err">>
            /\ pc' = "fallback"
            /\ UNCHANGED <<enum_item, enum_state, field_count>>
    /\ UNCHANGED <<file, pass, prev, reader, pos, calls, stats, sample_count, info,
                   emitted, printed, result>>
    /\ UNCHANGED perfvars

\* Stage A: enumerator_ctx.enumerate(&info). On Ok the enumerator stands at
\* BeforeFirstItem, move_next() is called once and field_count starts at 0.
\* On Err control passes to the `else if`.
TryStageA ==
    /\ pc = "decode"
    /\ IF info.eh
       THEN /\ trace' = trace \o <<"A_try", "A_ok">>
            /\ enum_item' = 1
            /\ enum_state' = StateAt(info, 1)
            /\ field_count' = 0
            /\ pc' = "stageA"
       ELSE /\ trace' = trace \o <<"A_try", "A_err">>
            /\ pc' = "fallback"
            /\ UNCHANGED <<enum_item, enum_state, field_count>>
    /\ UNCHANGED <<file, pass, prev, reader, pos, calls, stats, sample_count, info,
                   emitted, printed, result>>
    /\ UNCHANGED perfvars

\* Variant: the Stage A limit is tested with `<=`.
StageAStepOneMore ==
    /\ pc = "stageA"
    /\ IF StateRank(enum_state) >= StateRank("BeforeFirstItem")
          /\ field_count <= ShownFields
       THEN /\ emitted' = Append(emitted, [stage |-> "A", idx |-> enum_item])
            /\ enum_item' = enum_item + 1
            /\ enum_state' = StateAt(info, enum_item + 1)
            /\ IF ~MoveNextSibling(info, enum_item)
               THEN pc' = "loop" /\ UNCHANGED field_count
               ELSE pc' = "stageA" /\ field_count' = field_count + 1
       ELSE /\ pc' = "loop"
            /\ UNCHANGED <<emitted, enum_item, enum_state, field_count>>
    /\ UNCHANGED <<file, pass, prev, reader, pos, calls, stats, sample_count, info,
                   trace, printed, result>>
    /\ UNCHANGED perfvars

\* Variant: the Stage A loop tests only the field limit, not the state.
StageAStepIgnoresState ==
    /\ pc = "stageA"
    /\ IF field_count < ShownFields
       THEN /\ emitted' = Append(emitted, [stage |-> "A", idx |-> enum_item])
            /\ enum_item' = enum_item + 1
            /\ enum_state' = StateAt(info, enum_item + 1)
            /\ IF ~MoveNextSibling(info, enum_item)
               THEN pc' = "loop" /\ UNCHANGED field_count
               ELSE pc' = "stageA" /\ field_count' = field_count + 1
       ELSE /\ pc' = "loop"
            /\ UNCHANGED <<emitted, enum_item, enum_state, field_count>>
    /\ UNCHANGED <<file, pass, prev, reader, pos, calls, stats, sample_count, info,
                   trace, printed, result>>
    /\ UNCHANGED perfvars

\* One test of the Stage A `while` and, when it passes, one run of its body:
\* print the item, move_next_sibling(), break or field_count += 1.
StageAStep ==
    /\ pc = "stageA"
    /\ IF StateRank(enum_state) >= StateRank("BeforeFirstItem")
          /\ field_count < ShownFields
       THEN /\ emitted' = Append(emitted, [stage |-> "A", idx |-> enum_item])
            /\ enum_item' = enum_item + 1
            /\ enum_state' = StateAt(info, enum_item + 1)
            /\ IF ~MoveNextSibling(info, enum_item)
               THEN pc' = "loop" /\ UNCHANGED field_count
               ELSE pc' = "stageA" /\ field_count' = field_count + 1
       ELSE /\ pc' = "loop"
            /\ UNCHANGED <<emitted, enum_item, enum_state, field_count>>
    /\ UNCHANGED <<file, pass, prev, reader, pos, calls, stats, sample_count, info,
                   trace, printed, result>>
    /\ UNCHANGED perfvars

\* Variant: a sample that neither stage can decode is reported as an error.
FallbackNoFormatFails ==
    /\ pc = "fallback"
    /\ IF info.has_format
       THEN /\ trace' = Append(trace, "B")
            /\ field_count' = 0
            /\ pc' = "stageB"
            /\ UNCHANGED <<reader, result>>
       ELSE /\ reader' = "dropped"
            /\ result' = Err("No schema for sample")
            /\ pc' = "returned"
            /\ UNCHANGED <<trace, field_count>>
    /\ UNCHANGED <<file, pass, prev, pos, calls, stats, sample_count, info,
                   enum_state, enum_item, emitted, printed>>
    /\ UNCHANGED perfvars

\* The `else if let Some(event_format) = info.format()`.
Fallback ==
    /\ pc = "fallback"
    /\ IF info.has_format
       THEN /\ trace' = Append(trace, "B")
            /\ field_count' = 0
            /\ pc' = "stageB"
       ELSE /\ pc' = "loop"
            /\ UNCHANGED <<trace, field_count>>
    /\ UNCHANGED <<file, pass, prev, reader, pos, calls, stats, sample_count, info,
                   enum_state, enum_item, emitted, printed, result>>
    /\ UNCHANGED perfvars

\* One step of `fields().iter().skip(skip_fields).enumerate()`: the loop
\* ends when the iterator is exhausted or at the break; otherwise the field
\* at position skip_fields + field_count (counted from 0) is printed.
StageBStep ==
    /\ pc = "stageB"
    /\ IF SkipFields(info) + field_count < info.nfields
          /\ ~(field_count >= ShownFields)
       THEN /\ emitted' = Append(emitted,
                                 [stage |-> "B", idx |-> SkipFields(info) + field_count])
            /\ field_count' = field_count + 1
            /\ pc' = "stageB"
       ELSE /\ pc' = "loop"
            /\ UNCHANGED <<emitted, field_count>>
    /\ UNCHANGED <<file, pass, prev, reader, pos, calls, stats, sample_count, info,
                   enum_state, enum_item, trace, printed, result>>
    /\ UNCHANGED perfvars

\* The caller runs the Tracepoint command on the same file again: a new call
\* of read_tracepoint_file. Nothing of the finished call is passed to it; its
\* locals are created by the new call itself.
CallAgain ==
    /\ pc = "returned"
    /\ pass < MaxPasses
    /\ pass' = pass + 1
    /\ prev' = result
    /\ result' = NoResult
    /\ reader' = "none"
    /\ calls' = NoCalls
    /\ printed' = NoPrinted
    /\ info' = NoInfo
    /\ enum_state' = "None"
    /\ enum_item' = 0
    /\ field_count' = 0
    /\ trace' = <<>>
    /\ emitted' = <<>>
    /\ pc' = "call"
    /\ UNCHANGED <<file, pos, stats, sample_count>>
    /\ UNCHANGED perfvars

Next ==
    \/ CheckPathMissing
    \/ CheckPathFound
    \/ OpenFileFails
    \/ OpenFile
    \/ MoveNextEventErr
    \/ MoveNextEventEof
    \/ MoveNextEvent
    \/ ClassifyRecord
    \/ ResolveFails
    \/ Resolve
    \/ TryStageA
    \/ StageAStep
    \/ Fallback
    \/ StageBStep
    \/ CallAgain

Spec == Init /\ [][Next]_vars

\* The function runs on one thread without waiting on anything: whenever it
\* has a next step it takes it.
\* Its liveness is checked on the files with fewer than MaxRecords records.
ShortFiles == {f \in Files : Len(f.records) < MaxRecords}

FairInit == InitOn(ShortFiles)

FairSpec == FairInit /\ [][Next]_vars /\ WF_vars(Next)

\* The same function on the long streams.
LongInit == InitOn(LongFiles)

LongSpec == LongInit /\ [][Next]_vars

----------------------------------------------------------------------------
(* The methods of a ProfilingResult, called on any counter snapshot *)

PerfInit ==
    /\ file = [exists |-> FALSE, empty |-> TRUE, header_ok |-> FALSE,
               records |-> <<>>, corrupt |-> FALSE]
    /\ pass = 1
    /\ prev = NoResult
    /\ pc = "perf"
    /\ reader = "none"
    /\ pos = 0
    /\ calls = NoCalls
    /\ stats = TracepointStatsDefault
    /\ sample_count = 0
    /\ info = NoInfo
    /\ enum_state = "None"
    /\ enum_item = 0
    /\ field_count = 0
    /\ trace = <<>>
    /\ emitted = <<>>
    /\ printed = NoPrinted
    /\ result = NoResult
    /\ perf \in ProfilingResults
    /\ callchain = NoCallchainResult
    /\ ratios = NoRatios

CallIpc ==
    /\ pc = "perf"
    /\ ratios' = [ratios EXCEPT !.ipc = ipc(perf)]
    /\ UNCHANGED <<perf, callchain>>
    /\ UNCHANGED tpvars

CallCacheMissRate ==
    /\ pc = "perf"
    /\ ratios' = [ratios EXCEPT !.cache_miss_rate = cache_miss_rate(perf)]
    /\ UNCHANGED <<perf, callchain>>
    /\ UNCHANGED tpvars

CallCyclesPerSecond ==
    /\ pc = "perf"
    /\ ratios' = [ratios EXCEPT !.cycles_per_second = cycles_per_second(perf)]
    /\ UNCHANGED <<perf, callchain>>
    /\ UNCHANGED tpvars

\* run_perf_profiler(duration_secs, _pid): the counters read from the group
\* and the duration make the ProfilingResult; its IPC and cache miss rate are
\* printed and it is returned.
RunPerfProfiler ==
    /\ pc = "perf"
    /\ ratios = NoRatios
    /\ ratios' = [ratios EXCEPT !.ipc = ipc(perf),
                                !.cache_miss_rate = cache_miss_rate(perf)]
    /\ pc' = "profiled"
    /\ UNCHANGED <<perf, callchain>>
    /\ UNCHANGED <<file, pass, prev, reader, pos, calls, stats, sample_count, info,
                   enum_state, enum_item, field_count, trace, emitted, printed, result>>

\* run_callchain_profiler(duration_secs, pid, sampling_frequency): the session
\* runs for the duration while the callback counts samples; the result is
\* built and its effective rate is printed.
RunCallchainProfiler ==
    /\ pc = "perf"
    /\ ratios = NoRatios
    /\ \E c \in CallchainProfilingResults :
          /\ callchain' = c
          /\ ratios' = [ratios EXCEPT !.effective_rate = effective_rate(c)]
    /\ pc' = "profiled"
    /\ UNCHANGED perf
    /\ UNCHANGED <<file, pass, prev, reader, pos, calls, stats, sample_count, info,
                   enum_state, enum_item, field_count, trace, emitted, printed, result>>

PerfNext ==
    \/ CallIpc
    \/ CallCacheMissRate
    \/ CallCyclesPerSecond
    \/ RunPerfProfiler
    \/ RunCallchainProfiler

PerfSpec == PerfInit /\ [][PerfNext]_vars

----------------------------------------------------------------------------
(* Properties *)

Returned == pc = "returned"

\* Records among the first n delivered whose type tag is not Sample.
NonSamplesIn(n) == Cardinality({i \in 1..n : file.records[i].ty # "Sample"})
SamplesIn(n)    == Cardinality({i \in 1..n : file.records[i].ty = "Sample"})

\* Positions of the function at which the current record is a sample being
\* resolved or decoded.
SamplePcs == {"resolve", "decode", "stageA", "fallback", "stageB"}

Sum(s) == s.total_events = s.sample_events + s.non_sample_events

\* C1: total_events = sample_events + non_sample_events after every processed
\* record, whatever mix of records the cursor delivers, and in the statistics
\* returned at end-of-stream.
C1_TotalIsSum ==
    /\ Sum(stats)
    /\ result.kind = "Ok" => Sum(result.stats[1])

\* C1 witness: a pass over a sample that resolves, a sample that does not and
\* a non-sample record has returned its statistics.
C1_Witness ==
    /\ Returned
    /\ result.kind = "Ok"
    /\ result.stats[1] = [total_events |-> 3, sample_events |-> 2, non_sample_events |-> 1]
    /\ \E i, j \in 1..Len(file.records) :
          /\ file.records[i].ty = "Sample" /\ file.records[i].resolves
          /\ file.records[j].ty = "Sample" /\ ~file.records[j].resolves

\* C2: a call on a path that does not exist returns the "File not found"
\* error, and in that call no reader is created, the file is not opened, no
\* header is read and the cursor is never advanced.
C2_MissingFile ==
    ~file.exists =>
        /\ calls = NoCalls
        /\ reader = "none"
        /\ pos = 0
        /\ Returned => result = Err("File not found")

\* C2 witness: a call on a missing path has returned.
C2_Witness ==
    /\ ~file.exists
    /\ Returned
    /\ result.kind = "Err"

\* C3: a sample whose resolution fails never aborts the pass: the only errors
\* a pass returns are the missing file, the failed open and the stream error
\* at the corrupt frame; after a failed resolution the loop goes on with the
\* next record, every delivered record is counted, and a stream that ends
\* well returns Ok with all its records counted.
C3_UnresolvedNotFatal ==
    /\ (Returned /\ result.kind = "Err") =>
          \/ result.msg = "File not found" /\ ~file.exists
          \/ result.msg = "Failed to open perf.data file" /\ ~file.header_ok
          \/ result.msg = "Error reading event" /\ file.corrupt /\ pos = Len(file.records)
    /\ (pc # "classify") => stats.total_events = pos
    /\ (Returned /\ file.header_ok /\ ~file.corrupt) =>
          /\ result.kind = "Ok"
          /\ result.stats[1].total_events = Len(file.records)

\* C3 witness: a stream whose first record is an unresolvable sample, followed
\* by further records, has been decoded to its end.
C3_Witness ==
    /\ Returned
    /\ result.kind = "Ok"
    /\ Len(file.records) >= 2
    /\ file.records[1].ty = "Sample"
    /\ ~file.records[1].resolves
    /\ printed.notice >= 1
    /\ result.stats[1].total_events = Len(file.records)

\* C4 (as claimed): when the cursor reports a stream error after some records
\* were processed, the statistics accumulated up to that point reach the
\* caller, in the returned value or in the printed summary.
C4_PartialStatsDiscoverable ==
    (Returned /\ result.msg = "Error reading event" /\ stats.total_events > 0) =>
        \/ result.stats = <<stats>>
        \/ printed.summary > 0

\* C5 (as claimed): a file with no records, zero-length or header-only, returns
\* Ok with all counters 0.
C5_NoRecordsIsOk ==
    (Returned /\ (ZeroLength(file) \/ HeaderOnly(file))) =>
        result = Ok(TracepointStatsDefault)

\* C5 (amended): a header-only file returns Ok with all counters 0; a
\* zero-length file fails at open_file with "Failed to open perf.data file"
\* and no record is processed.
C5_HeaderOnlyIsOk ==
    /\ (Returned /\ HeaderOnly(file)) => result = Ok(TracepointStatsDefault)
    /\ (Returned /\ ZeroLength(file)) =>
          /\ result = Err("Failed to open perf.data file")
          /\ calls.move_next_event = 0

\* C5 witness: a pass over a header-only file has returned.
C5_Witness ==
    /\ Returned
    /\ HeaderOnly(file)
    /\ result.kind = "Ok"
    /\ calls.move_next_event = 1

\* C6: for every decoded sample Stage A is attempted first; Stage B is entered
\* only after Stage A's construction failed for that sample; no sample gets
\* fields from both stages.
C6_StageOrder ==
    /\ pc \in {"stageA", "fallback", "stageB"} => Len(trace) >= 2 /\ trace[1] = "A_try"
    /\ pc = "stageA" => trace = <<"A_try", "A_ok">> /\ info.eh
    /\ pc \in {"fallback", "stageB"} => trace[2] = "A_err" /\ ~info.eh
    /\ \A i \in 1..Len(trace) :
          trace[i] = "B" => i = 3 /\ trace[1] = "A_try" /\ trace[2] = "A_err"
    /\ \A i \in 1..Len(emitted) :
          /\ emitted[i].stage = emitted[1].stage
          /\ emitted[i].stage = "A" => info.eh
          /\ emitted[i].stage = "B" => ~info.eh

\* C6 witness: Stage B has printed fields for a sample whose Stage A
\* construction failed.
C6_Witness ==
    /\ pc = "loop"
    /\ trace = <<"A_try", "A_err", "B">>
    /\ Len(emitted) >= 2
    /\ emitted[1].stage = "B"

\* C7: with common-field count K, Stage B prints none of the first K declared
\* fields: the i-th printed field is the declared field at position K + i - 1
\* (counted from 0), and once Stage B has finished it has printed the fields
\* K, K+1, ... up to the print limit, which is nothing when K reaches the
\* number of declared fields.
C7_CommonFieldsSkipped ==
    /\ \A i \in 1..Len(emitted) :
          emitted[i].stage = "B" =>
              /\ emitted[i].idx >= info.common
              /\ emitted[i].idx = info.common + i - 1
              /\ emitted[i].idx < info.nfields
    /\ (pc = "loop" /\ Len(trace) = 3) =>
          Len(emitted) = IF info.common >= info.nfields THEN 0
                         ELSE Min(ShownFields, info.nfields - info.common)

\* C7 witness: Stage B has finished on a format with K = 2 of 4 declared
\* fields and printed the two fields after the common ones.
C7_Witness ==
    /\ pc = "loop"
    /\ Len(trace) = 3
    /\ info.common = 2
    /\ info.nfields = 4
    /\ Len(emitted) = 2
    /\ emitted[1].idx = 2

\* C7 witness for the degenerate counts: Stage B has finished without printing
\* on a format whose K is at least its number of fields.
C7_WitnessNothing ==
    /\ pc = "loop"
    /\ Len(trace) = 3
    /\ info.common >= info.nfields
    /\ info.nfields >= 1

\* C8: ipc, cache_miss_rate and cycles_per_second return exactly 0 when their
\* denominator is 0, for every numerator, and no call divides by zero (no
\* returned value is NaN or infinite).
C8_ZeroDenominator ==
    /\ (ratios.ipc # NotCalled /\ perf.cpu_cycles = 0) => ratios.ipc = Zero
    /\ (ratios.cache_miss_rate # NotCalled /\ perf.cache_references = 0) =>
          ratios.cache_miss_rate = Zero
    /\ (ratios.cycles_per_second # NotCalled /\ perf.duration_secs = 0) =>
          ratios.cycles_per_second = Zero
    /\ ratios.ipc.kind \in {"none", "finite"}
    /\ ratios.cache_miss_rate.kind \in {"none", "finite"}
    /\ ratios.cycles_per_second.kind \in {"none", "finite"}

\* C8 witness: the three methods were called on a snapshot whose three
\* denominators are 0 and whose numerators are not.
C8_Witness ==
    /\ perf.cpu_cycles = 0 /\ perf.cache_references = 0 /\ perf.duration_secs = 0
    /\ perf.instructions > 0 /\ perf.cache_misses > 0
    /\ ratios.ipc = Zero
    /\ ratios.cache_miss_rate = Zero
    /\ ratios.cycles_per_second = Zero

\* C9: a second pass over the same file returns what the first pass returned:
\* the same outcome and, on success, the same three counters.
C9_SameResultTwice ==
    (pass >= 2 /\ Returned) => result = prev

\* C9 witness: a second pass over a file with samples and non-samples has
\* returned its statistics.
C9_Witness ==
    /\ pass = 2
    /\ Returned
    /\ result.kind = "Ok"
    /\ result.stats[1].sample_events >= 1
    /\ result.stats[1].non_sample_events >= 1

\* C10: a record whose type tag is not Sample, known or not, is counted as a
\* non-sample: non_sample_events is the number of such records delivered, none
\* of them reaches the resolver or the field decoder, and none aborts the pass.
C10_OtherTagsAreNonSample ==
    /\ (pc # "classify") =>
          /\ stats.non_sample_events = NonSamplesIn(pos)
          /\ stats.sample_events = SamplesIn(pos)
    /\ pc \in SamplePcs => Event.ty = "Sample"
    /\ (file.header_ok /\ pc # "call" /\ pc # "open") =>
          calls.get_sample_event_info <= SamplesIn(pos)
    /\ (Returned /\ file.header_ok /\ ~file.corrupt) => result.kind = "Ok"

\* C10 witness: a record with a tag outside the known enumeration was counted
\* as a non-sample and the pass went on to its end.
C10_Witness ==
    /\ Returned
    /\ result.kind = "Ok"
    /\ Len(file.records) >= 2
    /\ file.records[1].ty = "Unknown"
    /\ result.stats[1].non_sample_events >= 1
    /\ calls.get_sample_event_info = SamplesIn(Len(file.records))

\* The errors read_tracepoint_file can return, each with its cause.
KnownError ==
    \/ result.msg = "File not found" /\ ~file.exists
    \/ result.msg = "Failed to open perf.data file" /\ ~file.header_ok
    \/ result.msg = "Error reading event" /\ file.corrupt /\ pos = Len(file.records)

\* C11: for a resolved sample whose Stage A construction fails and whose
\* descriptor has no Field Format, no field is printed and no error is raised:
\* the record stays counted as a sample and the loop goes on to the next
\* record.
C11_NoSchemaIsNotAnError ==
    /\ (trace = <<"A_try", "A_err">> /\ ~info.has_format) =>
          /\ emitted = <<>>
          /\ pc \in {"fallback", "loop", "returned", "call", "open"}
          /\ stats.sample_events = SamplesIn(pos)
          /\ stats.total_events = pos
          /\ Returned => (result.kind = "Ok" \/ KnownError)
    /\ (Returned /\ result.kind = "Err") => KnownError

\* C11 witness: the pass is back at the head of the loop after a resolved
\* sample that neither stage could decode, with a record still to come.
C11_Witness ==
    /\ pc = "loop"
    /\ trace = <<"A_try", "A_err">>
    /\ ~info.has_format
    /\ emitted = <<>>
    /\ result = NoResult
    /\ stats.sample_events >= 1
    /\ pos < Len(file.records)

\* C12: once the container was opened, every return of read_tracepoint_file
\* (end of stream, stream error, with or without resolution failures before
\* it) has released the reader; the reader is open only while the pass runs.
C12_ReaderReleased ==
    /\ (Returned /\ calls.new > 0) => reader = "dropped"
    /\ reader = "open" => pc \notin {"call", "open", "returned"}
    /\ pc \in {"call", "open"} => reader = "none"

\* C12 witness: a pass that met an unresolvable sample has returned on a
\* stream error with the reader released.
C12_Witness ==
    /\ Returned
    /\ result.msg = "Error reading event"
    /\ printed.notice >= 1
    /\ calls.open_file = 1
    /\ reader = "dropped"

\* Among the first n delivered records: the samples whose resolution fails,
\* and those of them that are among the first ShownSamples samples of the
\* stream.
FailuresIn(n) ==
    Cardinality({i \in 1..n : file.records[i].ty = "Sample" /\ ~file.records[i].resolves})
EarlyFailuresIn(n) ==
    Cardinality({i \in 1..n : /\ file.records[i].ty = "Sample"
                              /\ ~file.records[i].resolves
                              /\ SamplesIn(i) <= ShownSamples})

\* The positions at which the record at pos has been fully classified and,
\* for a sample, resolved.
AfterResolve == pc \notin {"call", "open", "classify", "resolve"}

\* C13 (as claimed): the first few resolution failures of the stream each get
\* a notice and the later ones none: after n failures the pass has printed
\* min(n, 5) notices.
C13_FirstFailuresNoticed ==
    AfterResolve => printed.notice = Min(FailuresIn(pos), ShownSamples)

\* C13 (amended): a resolution failure gets a notice exactly when the failing
\* sample is among the first 5 Sample records of the stream, resolved or not;
\* so a pass prints at most 5 notices, and processing continues after each
\* failure.
C13_EarlySampleFailuresNoticed ==
    /\ AfterResolve => printed.notice = EarlyFailuresIn(pos)
    /\ printed.notice <= ShownSamples
    /\ (Returned /\ result.kind = "Err") => KnownError
    /\ (Returned /\ file.header_ok /\ ~file.corrupt) =>
          result.stats[1].total_events = Len(file.records)

\* C13 witness: a pass over six unresolvable samples has returned with five
\* notices printed.
C13_Witness ==
    /\ Returned
    /\ result.kind = "Ok"
    /\ FailuresIn(Len(file.records)) > ShownSamples
    /\ printed.notice = ShownSamples

\* C14: at end of stream total_events is the number of delivered records,
\* sample_events the number of them tagged Sample, whether or not they
\* resolved, and non_sample_events the number of all others.
C14_FinalCounts ==
    (Returned /\ result.kind = "Ok") =>
        result.stats[1] = [total_events |-> Len(file.records),
                           sample_events |-> SamplesIn(Len(file.records)),
                           non_sample_events |-> NonSamplesIn(Len(file.records))]

\* C14 witness: a pass has returned Ok over a stream holding an unresolvable
\* sample, which is counted in sample_events.
C14_Witness ==
    /\ Returned
    /\ result.kind = "Ok"
    /\ FailuresIn(Len(file.records)) >= 1
    /\ result.stats[1].sample_events = SamplesIn(Len(file.records))
    /\ result.stats[1].non_sample_events >= 1

\* C15: once move_next_event has returned an error the function returns an
\* error, and in that pass the cursor is not advanced again, the current
\* record is not read and no counter changes: the failing call is the last
\* library call of the pass and the counters are those of the records
\* delivered before it. After an end of stream the cursor is not advanced
\* again either.
C15_NothingAfterStreamEnd ==
    /\ (Returned /\ file.header_ok /\ file.corrupt) =>
          /\ result = Err("Error reading event")
          /\ printed.summary = 0
    /\ (Returned /\ file.header_ok) =>
          /\ calls.move_next_event = Len(file.records) + 1
          /\ calls.current_event = Len(file.records)
          /\ calls.get_sample_event_info = SamplesIn(Len(file.records))
          /\ stats.total_events = Len(file.records)
          /\ pos = Len(file.records)
    /\ (file.header_ok /\ pc \notin {"call", "open", "returned"}) =>
          calls.move_next_event = pos

\* C15 witness: a pass has returned the stream error after two records.
C15_Witness ==
    /\ Returned
    /\ result = Err("Error reading event")
    /\ calls.move_next_event = 3
    /\ calls.current_event = 2
    /\ stats.total_events = 2

\* C16: no sample gets more than 3 field lines, in Stage A however many
\* top-level items the payload has and in Stage B however many fields the
\* format declares after the common ones.
C16_AtMostThreeFields ==
    /\ Len(emitted) <= ShownFields
    /\ field_count <= ShownFields

\* C16 witness: Stage A has stopped after three items of a payload that has
\* more.
C16_Witness ==
    /\ pc = "loop"
    /\ trace = <<"A_try", "A_ok">>
    /\ info.items > ShownFields
    /\ Len(emitted) = ShownFields

\* C16 witness for Stage B: it has stopped after three fields of a format
\* that declares more after the common ones.
C16_WitnessFormat ==
    /\ pc = "loop"
    /\ Len(trace) = 3
    /\ info.nfields - info.common > ShownFields
    /\ Len(emitted) = ShownFields

\* What Stage A has printed, and where it stands, at every point of a sample.
StageAShape ==
    /\ \A i \in 1..Len(emitted) :
          emitted[i].stage = "A" =>
              /\ emitted[i].idx = i
              /\ StateRank(StateAt(info, emitted[i].idx)) >= StateRank("BeforeFirstItem")
    /\ pc = "stageA" =>
          /\ enum_state = StateAt(info, enum_item)
          /\ enum_item = field_count + 1
          /\ Len(emitted) = field_count
    /\ (pc = "loop" /\ trace = <<"A_try", "A_ok">>) =>
          Len(emitted) = Min(ShownFields, info.items)

\* One pass through the Stage A loop either leaves it or counts one more
\* field, up to the limit.
StageAProgress ==
    pc = "stageA" =>
        \/ pc' = "loop"
        \/ pc' = "stageA" /\ field_count' = field_count + 1 /\ field_count' <= ShownFields

\* C17: after the single initial move_next(), Stage A prints an item only
\* while the enumerator stands on one (state at or above BeforeFirstItem); it
\* stops at the first move_next_sibling() that finds no sibling or when the
\* state is below BeforeFirstItem, printing nothing when that is so right
\* after the initial move_next(); and the loop always terminates.
C17_StageALoop ==
    /\ []StageAShape
    /\ [][StageAProgress]_vars
    /\ (pc = "stageA") ~> (pc = "loop")

\* C17 witness: Stage A has ended without printing on a payload whose initial
\* move_next() left the enumerator in the Error state.
C17_Witness ==
    /\ pc = "loop"
    /\ trace = <<"A_try", "A_ok">>
    /\ info.items = 0
    /\ info.truncated
    /\ enum_state = "Error"
    /\ emitted = <<>>

\* C17 witness for the sibling exit: Stage A has ended after the last of two
\* items, when move_next_sibling() found no further one.
C17_WitnessLastSibling ==
    /\ pc = "loop"
    /\ trace = <<"A_try", "A_ok">>
    /\ info.items = 2
    /\ Len(emitted) = 2
    /\ enum_state = "AfterLastItem"

\* The change of the counters in one step of a pass.
CounterStep ==
    /\ pc = "open" => stats' \in {stats, TracepointStatsDefault}
    /\ pc = "classify" =>
          /\ stats'.total_events = stats.total_events + 1
          /\ \/ /\ stats'.sample_events = stats.sample_events + 1
                /\ stats'.non_sample_events = stats.non_sample_events
             \/ /\ stats'.sample_events = stats.sample_events
                /\ stats'.non_sample_events = stats.non_sample_events + 1
    /\ pc \notin {"open", "classify"} => stats' = stats

\* C18: the three counters are 0 when the pass starts its loop and never
\* decrease during the pass: the step that processes a delivered record adds
\* exactly 1 to total_events and exactly 1 to exactly one of sample_events and
\* non_sample_events, and no other step (advancing, resolving, decoding in
\* either stage, returning) changes a counter.
C18_CountersStepByOne ==
    /\ [](pc = "loop" /\ pos = 0 => stats = TracepointStatsDefault)
    /\ [][CounterStep]_vars

\* C18 witness: a sample has been resolved and decoded with fields printed,
\* after a non-sample record, and the counters are those of the two records.
C18_Witness ==
    /\ pc = "loop"
    /\ pos = 2
    /\ emitted # <<>>
    /\ stats = [total_events |-> 2, sample_events |-> 1, non_sample_events |-> 1]

\* A step of the loop never goes back to a record already delivered: leaving
\* the resolver ends the iteration or starts the decode of the same record,
\* and every further record is a new advance of the cursor.
NoReprocess ==
    /\ pc = "resolve" => pc' \in {"loop", "decode"} /\ pos' = pos
    /\ (pc = "loop" /\ pc' # "returned") => pc' = "classify" /\ pos' = pos + 1
    /\ pc \in SamplePcs \cup {"classify"} => pos' = pos

\* C19: every pass over a finite stream terminates, returning the statistics
\* at end of stream or the error of the first fatal stream error; a resolution
\* failure never makes the loop stall or process a record again.
C19_PassTerminates ==
    /\ (pc = "call") ~> Returned
    /\ [][NoReprocess]_vars
    /\ [](Returned => (result.kind = "Ok" \/ KnownError))

\* C19 witness: a pass over a stream made only of unresolvable samples has
\* returned.
C19_Witness ==
    /\ Returned
    /\ result.kind \in {"Ok", "Err"}
    /\ file.header_ok
    /\ Len(file.records) = MaxRecords - 1
    /\ FailuresIn(Len(file.records)) = Len(file.records)

\* Among the first n delivered records: the resolvable samples, and those of
\* them that are among the first ShownSamples samples of the stream.
ResolvedIn(n) ==
    Cardinality({i \in 1..n : file.records[i].ty = "Sample" /\ file.records[i].resolves})
EarlyResolvedIn(n) ==
    Cardinality({i \in 1..n : /\ file.records[i].ty = "Sample"
                              /\ file.records[i].resolves
                              /\ SamplesIn(i) <= ShownSamples})

\* C20: a sample is decoded (Stage A or Stage B) only when it is among the
\* first 5 Sample records of the stream, unresolvable samples included in the
\* 5: the decoded samples are the resolvable ones among those 5, so at most 5
\* per pass and fewer when one of the first 5 does not resolve, whatever
\* resolves later; and non-sample detail lines are printed for the first 3
\* non-sample records only.
C20_OnlyEarlySamplesDecoded ==
    /\ pc \in {"decode", "stageA", "fallback", "stageB"} =>
          /\ SamplesIn(pos) <= ShownSamples
          /\ Event.resolves
    /\ AfterResolve =>
          /\ printed.sample = EarlyResolvedIn(pos)
          /\ printed.sample + printed.notice = Min(SamplesIn(pos), ShownSamples)
    /\ printed.sample <= ShownSamples
    /\ trace # <<>> => SamplesIn(pos) <= ShownSamples
    /\ pc \notin {"call", "open", "classify"} =>
          printed.non_sample = Min(NonSamplesIn(pos), ShownNonSamples)

\* C20 witness: a pass over one unresolvable sample followed by five
\* resolvable ones has returned having decoded four samples.
C20_Witness ==
    /\ Returned
    /\ result.kind = "Ok"
    /\ ~file.records[1].resolves
    /\ ResolvedIn(Len(file.records)) = ShownSamples
    /\ printed.sample = ShownSamples - 1
    /\ printed.notice = 1

\* C20 witness for the non-sample lines: a pass over more than three
\* non-sample records has returned with three detail lines printed.
C20_WitnessNonSamples ==
    /\ Returned
    /\ NonSamplesIn(Len(file.records)) > ShownNonSamples
    /\ printed.non_sample = ShownNonSamples

\* C21: no ratio the perf module computes or prints divides by zero: the IPC
\* and cache miss rate printed by run_perf_profiler, cycles per second, and
\* the effective rate printed by run_callchain_profiler are all finite, for
\* every duration_secs including 0.
C21_NoRatioDividesByZero ==
    /\ ratios.ipc.kind \in {"none", "finite"}
    /\ ratios.cache_miss_rate.kind \in {"none", "finite"}
    /\ ratios.cycles_per_second.kind \in {"none", "finite"}
    /\ ratios.effective_rate.kind \in {"none", "finite"}

\* The part of C21 that holds: the three ProfilingResult ratios, as printed by
\* run_perf_profiler or called directly, never divide by zero.
C21_ProfilingResultRatiosGuarded ==
    /\ ratios.ipc.kind \in {"none", "finite"}
    /\ ratios.cache_miss_rate.kind \in {"none", "finite"}
    /\ ratios.cycles_per_second.kind \in {"none", "finite"}
    /\ (pc = "profiled" /\ ratios.ipc # NotCalled /\ perf.cpu_cycles = 0) =>
          ratios.ipc = Zero

\* run_perf_profiler has printed its ratios for a run of duration 0 in which
\* no cycle and no cache reference was counted.
C21_ProfiledZeroDuration ==
    /\ pc = "profiled"
    /\ perf.duration_secs = 0
    /\ perf.cpu_cycles = 0
    /\ perf.cache_references = 0
    /\ ratios.ipc = Zero
    /\ ratios.cache_miss_rate = Zero

====
